---- MODULE Spec2Model ----
(***************************************************************************)
(* A model of assets/js/script.js: the timing utilities (debounce,         *)
(* throttle), the mobile menu, the active-navigation scroll handler and    *)
(* the counter animation trigger.                                          *)
(*                                                                         *)
(* Each behaviour unit has its own specification (SpecThrottle,            *)
(* SpecDebounce, SpecMenu, SpecNav, SpecCounter): the units share no state *)
(* in the source, so each specification moves its own variables and        *)
(* leaves the others at their initial value.                               *)
(***************************************************************************)
EXTENDS Integers, Sequences, FiniteSets, TLC

VARIABLES
    now,        \* Date.now(), in milliseconds
    timers,     \* the page's pending timers: [id, due, arg]
    timerSeq,   \* the id the last setTimeout returned
    th,         \* closure state of one throttled function: lastExecTime, timeoutId
    thCalls,    \* history: Date.now() at each invocation of the throttled function
    thExecs,    \* history: the real executions of func: [t, arg, trailing]
    thOnTime,   \* history: no timer has been left pending past its due time
    db,         \* closure state of one debounced function: timeout
    dbCalls,    \* history: Date.now() at each invocation of the debounced function
    dbExecs,    \* history: the real executions of func: [t, arg]
    menu,       \* MobileMenu: isOpen, navbar 'active' class, aria-expanded, body overflow
    menuWired,  \* menuToggle and navbar both exist, so init() added the listeners
    menuRan,    \* history: open() or close() has run
    menuEvent,  \* history: the last click or key press dispatched
    menuPrev,   \* history: isOpen before that event
    navPage,    \* the page's sections (id, offsetTop, offsetHeight) and nav links (href)
    scrollY,    \* window.scrollY
    navActive,  \* the nav links (by position) that carry the 'active' class
    navTh,      \* closure state of ActiveNavigation's throttled handler
    navScrolls, \* history: scroll events dispatched
    navRan,     \* history: the handler has run
    navCurrent, \* history: the handler's `current` at the end of its last run
    navRunY,    \* history: window.scrollY during its last run
    cnt,        \* CounterAnimation: the animated set, the running updateCounter
                \* closures, the counters' textContent; history: animateCounter calls
    cntLimit,   \* how far a behaviour is followed: the frames in which events
                \* come, the scroll events, and whether animations are run out
    cntTh,      \* closure state of CounterAnimation's throttled handler
    cntBuilt,   \* the constructor has run
    cntScrolls, \* history: scroll events dispatched
    cntRuns,    \* history: runs of the handler
    cntRunBy,   \* history: what made the handler run last
    vf,         \* a form field given to validateField: type, required, value
    form,       \* the contact form: fields, submit button, messages, submissions
    boot,       \* the page and what the DOMContentLoaded handler made of it
    vfError     \* the error shown for it: "" for none, "unchecked" before any

clockVars == <<now, timers, timerSeq>>
thVars == <<th, thCalls, thExecs, thOnTime>>
dbVars == <<db, dbCalls, dbExecs>>
menuVars == <<menu, menuWired, menuRan, menuEvent, menuPrev>>
navVars == <<navPage, scrollY, navActive, navTh, navScrolls, navRan, navCurrent, navRunY>>
cntVars == <<cnt, cntLimit, cntTh, cntBuilt, cntScrolls, cntRuns, cntRunBy>>
vfVars == <<vf, vfError>>
formVars == <<form>>
bootVars == <<boot>>
vars == <<clockVars, thVars, dbVars, menuVars, navVars, cntVars, vfVars, formVars, bootVars>>

(***************************************************************************)
(* Bounds of the model and constants of the program.                       *)
(***************************************************************************)
Epoch == 1000        \* Date.now() when the page starts (any value > every delay)
MaxTime == 22        \* the clock is followed for MaxTime ms after Epoch
MaxCalls == 3        \* invocations of a wrapped function that are followed
NavMaxTime == 12     \* the clock of the navigation's page is followed that long
ThrottleDelay == 10  \* delay of the throttled function (ActiveNavigation's)
DebounceWait == 4    \* wait of the debounced function
NavOffset == 120     \* the header's height, taken off every section's top
CounterDelay == 100  \* delay of CounterAnimation's throttled handler
Duration == 2000     \* animateCounter: duration
FrameMs == 16        \* animateCounter: the frame period it divides duration by
CntMaxFrames == 14   \* animation frames that are followed
AnimMaxFrames == 3   \* frames in which the events of a run-out animation come
AnimMaxScrolls == 1  \* scroll events before animations that are run out

(***************************************************************************)
(* Timers: setTimeout(callback, ms) and clearTimeout(id). An id of 0 is    *)
(* the undefined timeoutId of a closure that has set no timer yet;         *)
(* clearing an id that is not pending does nothing.                        *)
(***************************************************************************)
SetTimeout(tt, id, t, ms, arg) == tt \cup {[id |-> id, due |-> t + ms, arg |-> arg]}

ClearTimeout(tt, id) == {x \in tt : x.id # id}

TimerDue(x, t) == x.due <= t

(***************************************************************************)
(* throttle(func, delay)                                                   *)
(***************************************************************************)
ThrottleInit == [lastExecTime |-> 0, timeoutId |-> 0]

\* line 32: the branch that executes func at once
ThrottleImmediate(s, delay, t) == t - s.lastExecTime > delay

\* lines 33-34: func runs and lastExecTime = currentTime; the timer is not touched
ThrottleExecNow(s, t) == [s EXCEPT !.lastExecTime = t]

ThrottleRemainingFull(s, delay, t) == delay

\* line 40: the rest of the window
ThrottleRemaining(s, delay, t) == delay - (t - s.lastExecTime)

\* lines 36-40: clearTimeout(timeoutId); timeoutId = setTimeout(..., remaining)
ThrottleSchedule(tt, s, id, delay, t, arg) ==
    SetTimeout(ClearTimeout(tt, s.timeoutId), id, t, ThrottleRemaining(s, delay, t), arg)

\* lines 37-39: the timer's callback: func runs, lastExecTime = Date.now()
ThrottleTimerRun(s, t) == [s EXCEPT !.lastExecTime = t]

\* One invocation of the throttled function with argument arg.
ThrottleCall(arg) ==
    /\ Len(thCalls) < MaxCalls
    /\ thCalls' = Append(thCalls, now)
    /\ IF ThrottleImmediate(th, ThrottleDelay, now)
         THEN /\ th' = ThrottleExecNow(th, now)
              /\ thExecs' = Append(thExecs, [t |-> now, arg |-> arg, trailing |-> FALSE])
              /\ UNCHANGED <<timers, timerSeq>>
         ELSE /\ timerSeq' = timerSeq + 1
              /\ timers' = ThrottleSchedule(timers, th, timerSeq', ThrottleDelay, now, arg)
              /\ th' = [th EXCEPT !.timeoutId = timerSeq']
              /\ thExecs' = thExecs
    /\ UNCHANGED <<now, thOnTime, dbVars, menuVars, navVars, cntVars, vfVars, formVars, bootVars>>

\* The invocations carry their ordinal as argument.
ThrottleInvoke == ThrottleCall(Len(thCalls) + 1)

\* A pending timer fires, at or after its due time.
ThrottleTimer ==
    \E x \in timers :
        /\ TimerDue(x, now)
        /\ timers' = timers \ {x}
        /\ th' = ThrottleTimerRun(th, now)
        /\ thExecs' = Append(thExecs, [t |-> now, arg |-> x.arg, trailing |-> TRUE])
        /\ UNCHANGED <<now, timerSeq, thCalls, thOnTime, dbVars, menuVars, navVars, cntVars, vfVars, formVars, bootVars>>

\* One millisecond passes. A timer that was due and has not fired is late.
ThrottleTick ==
    /\ now < Epoch + MaxTime
    /\ now' = now + 1
    /\ thOnTime' = (thOnTime /\ \A x \in timers : ~TimerDue(x, now))
    /\ UNCHANGED <<timers, timerSeq, th, thCalls, thExecs, dbVars, menuVars, navVars, cntVars, vfVars, formVars, bootVars>>

(***************************************************************************)
(* debounce(func, wait)                                                    *)
(***************************************************************************)
DebounceInit == [timeout |-> 0]

DebounceKeepPending(tt, s) == tt

\* line 21: clearTimeout(timeout)
DebounceCancel(tt, s) == ClearTimeout(tt, s.timeout)

\* lines 21-22: clearTimeout(timeout); timeout = setTimeout(later, wait)
DebounceSchedule(tt, s, id, wait, t, arg) ==
    SetTimeout(DebounceCancel(tt, s), id, t, wait, arg)

DebounceCall(arg) ==
    /\ Len(dbCalls) < MaxCalls
    /\ dbCalls' = Append(dbCalls, now)
    /\ timerSeq' = timerSeq + 1
    /\ timers' = DebounceSchedule(timers, db, timerSeq', DebounceWait, now, arg)
    /\ db' = [db EXCEPT !.timeout = timerSeq']
    /\ UNCHANGED <<now, dbExecs, thVars, menuVars, navVars, cntVars, vfVars, formVars, bootVars>>

DebounceInvoke == DebounceCall(Len(dbCalls) + 1)

\* lines 17-20: later(): clearTimeout(timeout); func.apply(this, args)
DebounceLater ==
    \E x \in timers :
        /\ TimerDue(x, now)
        /\ timers' = ClearTimeout(timers \ {x}, db.timeout)
        /\ dbExecs' = Append(dbExecs, [t |-> now, arg |-> x.arg])
        /\ UNCHANGED <<now, timerSeq, db, dbCalls, thVars, menuVars, navVars, cntVars, vfVars, formVars, bootVars>>

DebounceTick ==
    /\ now < Epoch + MaxTime
    /\ now' = now + 1
    /\ UNCHANGED <<timers, timerSeq, dbVars, thVars, menuVars, navVars, cntVars, vfVars, formVars, bootVars>>

(***************************************************************************)
(* MobileMenu                                                              *)
(***************************************************************************)
\* What the page's markup may hold before the script touches it.
AriaValues == {"true", "false", "unset"}
OverflowValues == {"", "hidden"}

\* A click target, by the listeners its click reaches: inside the toggle
\* control, inside a nav link, inside the navbar. A nav link (an anchor) and
\* the toggle control (a button) do not nest.
ClickTargets ==
    {c \in [onToggle : BOOLEAN, onLink : BOOLEAN, inNavbar : BOOLEAN] :
        ~(c.onToggle /\ c.onLink)}

Keys == {"Escape", "Enter"}

NoEvent == [kind |-> "none", onToggle |-> FALSE, onLink |-> FALSE,
            inNavbar |-> FALSE, key |-> ""]

ClickEvent(c) == [kind |-> "click", onToggle |-> c.onToggle, onLink |-> c.onLink,
                  inNavbar |-> c.inNavbar, key |-> ""]

KeyEvent(k) == [kind |-> "key", onToggle |-> FALSE, onLink |-> FALSE,
                inNavbar |-> FALSE, key |-> k]

\* lines 81-86
MenuOpen(m) ==
    [isOpen |-> TRUE, navbarActive |-> TRUE, ariaExpanded |-> "true", overflow |-> "hidden"]

MenuCloseKeepsScrollLock(m) ==
    [isOpen |-> FALSE, navbarActive |-> FALSE, ariaExpanded |-> "false",
     overflow |-> m.overflow]

\* lines 88-93
MenuClose(m) ==
    [isOpen |-> FALSE, navbarActive |-> FALSE, ariaExpanded |-> "false", overflow |-> ""]

\* lines 77-79
MenuToggle(m) == IF m.isOpen THEN MenuClose(m) ELSE MenuOpen(m)

\* line 54: the toggle control's click listener
MenuOnToggleClick(m, c) == IF c.onToggle THEN MenuToggle(m) ELSE m

\* lines 57-59: the nav links' click listeners
MenuOnLinkClick(m, c) == IF c.onLink THEN MenuClose(m) ELSE m

MenuOnDocumentClickNavbarOnly(m, c) == IF ~c.inNavbar THEN MenuClose(m) ELSE m

\* lines 62-66: the document's click listener
MenuOnDocumentClick(m, c) ==
    IF ~c.inNavbar /\ ~c.onToggle THEN MenuClose(m) ELSE m

\* lines 69-73: the document's keydown listener
MenuOnKeydown(m, k) == IF k = "Escape" /\ m.isOpen THEN MenuClose(m) ELSE m

\* The listeners of one click, in registration order; the document's runs
\* last, the click having bubbled up to it.
MenuClickResult(m, c) ==
    MenuOnDocumentClick(MenuOnLinkClick(MenuOnToggleClick(m, c), c), c)

\* open() or close() runs during the click
MenuClickRuns(c) == c.onToggle \/ c.onLink \/ (~c.inNavbar /\ ~c.onToggle)

MenuClick ==
    \E c \in ClickTargets :
        /\ menuEvent' = ClickEvent(c)
        /\ menuPrev' = menu.isOpen
        /\ menu' = IF menuWired THEN MenuClickResult(menu, c) ELSE menu
        /\ menuRan' = (menuRan \/ (menuWired /\ MenuClickRuns(c)))
        /\ UNCHANGED <<menuWired, clockVars, thVars, dbVars, navVars, cntVars, vfVars, formVars, bootVars>>

MenuKeydown ==
    \E k \in Keys :
        /\ menuEvent' = KeyEvent(k)
        /\ menuPrev' = menu.isOpen
        /\ menu' = IF menuWired THEN MenuOnKeydown(menu, k) ELSE menu
        /\ menuRan' = (menuRan \/ (menuWired /\ k = "Escape" /\ menu.isOpen))
        /\ UNCHANGED <<menuWired, clockVars, thVars, dbVars, navVars, cntVars, vfVars, formVars, bootVars>>

(***************************************************************************)
(* ActiveNavigation                                                        *)
(***************************************************************************)
Section(id, top, height) == [id |-> id, offsetTop |-> top, offsetHeight |-> height]

\* Pages: three sections one after the other, each with its link; the same
\* with a logo link to '#'; two sections that overlap, one of them linked
\* twice; two sections with gaps around them and a link that leaves the page.
ThreeSections ==
    <<Section("home", 0, 800), Section("about", 800, 800), Section("contact", 1600, 800)>>

NavPages ==
    { [sections |-> ThreeSections, links |-> <<"#home", "#about", "#contact">>],
      [sections |-> ThreeSections, links |-> <<"#", "#home", "#about", "#contact">>],
      [sections |-> <<Section("home", 0, 1000), Section("about", 800, 800)>>,
       links |-> <<"#home", "#about", "#about">>],
      [sections |-> <<Section("intro", 200, 300), Section("more", 900, 300)>>,
       links |-> <<"#intro", "pricing.html", "#more">>] }

PlainNavPage == [sections |-> ThreeSections, links |-> <<"#home", "#about", "#contact">>]

\* Scroll offsets at, just below and between the limits of those sections.
ScrollPositions == {-121, -120, -50, 80, 380, 679, 680, 850, 880, 1480, 2279, 2280}

\* The links the markup may ship with the 'active' class: none, or the first.
NavMarkupActive == {{}, {1}}

NavSectionTopNoOffset(sec) == sec.offsetTop

\* line 161
NavSectionTop(sec) == sec.offsetTop - NavOffset

\* line 164
NavSectionMatches(sec, y) ==
    y >= NavSectionTop(sec) /\ y < NavSectionTop(sec) + sec.offsetHeight

\* lines 158-167: `current` after the sections from the i-th on
RECURSIVE NavCurrentFrom(_, _, _, _)
NavCurrentFrom(secs, y, i, current) ==
    IF i > Len(secs)
        THEN current
        ELSE NavCurrentFrom(secs, y, i + 1,
                 IF NavSectionMatches(secs[i], y) THEN secs[i].id ELSE current)

NavCurrentFirstMatch(secs, y) ==
    IF \E i \in 1..Len(secs) : NavSectionMatches(secs[i], y)
        THEN secs[CHOOSE i \in 1..Len(secs) :
                     /\ NavSectionMatches(secs[i], y)
                     /\ \A j \in 1..(i - 1) : ~NavSectionMatches(secs[j], y)].id
        ELSE ""

NavCurrent(secs, y) == NavCurrentFrom(secs, y, 1, "")

\* line 171
NavLinkMatches(href, current) == href = "#" \o current

\* lines 169-174: every link loses 'active', the matching ones get it
NavLinksActive(links, current) ==
    {k \in 1..Len(links) : NavLinkMatches(links[k], current)}

\* lines 157-175: one run of the handler, window.scrollY being y
NavHandlerRun(y) ==
    /\ navCurrent' = NavCurrent(navPage.sections, y)
    /\ navActive' = NavLinksActive(navPage.links, navCurrent')
    /\ navRunY' = y
    /\ navRan' = TRUE

\* line 177: the page scrolls to y and the scroll event reaches the throttled handler
NavScroll ==
    \E y \in ScrollPositions :
        /\ navScrolls < MaxCalls
        /\ navScrolls' = navScrolls + 1
        /\ scrollY' = y
        /\ IF ThrottleImmediate(navTh, ThrottleDelay, now)
             THEN /\ navTh' = ThrottleExecNow(navTh, now)
                  /\ NavHandlerRun(y)
                  /\ UNCHANGED <<timers, timerSeq>>
             ELSE /\ timerSeq' = timerSeq + 1
                  /\ timers' = ThrottleSchedule(timers, navTh, timerSeq', ThrottleDelay, now, 0)
                  /\ navTh' = [navTh EXCEPT !.timeoutId = timerSeq']
                  /\ UNCHANGED <<navActive, navRan, navCurrent, navRunY>>
        /\ UNCHANGED <<now, navPage, thVars, dbVars, menuVars, cntVars, vfVars, formVars, bootVars>>

\* the throttle's timer fires: the handler runs on the scroll offset of that moment
NavTimer ==
    \E x \in timers :
        /\ TimerDue(x, now)
        /\ timers' = timers \ {x}
        /\ navTh' = ThrottleTimerRun(navTh, now)
        /\ NavHandlerRun(scrollY)
        /\ UNCHANGED <<now, timerSeq, navPage, scrollY, navScrolls, thVars, dbVars, menuVars, cntVars, vfVars, formVars, bootVars>>

NavTick ==
    /\ now < Epoch + NavMaxTime
    /\ now' = now + 1
    /\ UNCHANGED <<timers, timerSeq, navVars, thVars, dbVars, menuVars, cntVars, vfVars, formVars, bootVars>>

(***************************************************************************)
(* CounterAnimation                                                        *)
(***************************************************************************)
Stat(target, top, height) == [target |-> target, top |-> top, height |-> height]

\* The page's counters ([data-target] elements) in document order, with their
\* place in the document, and the window's height. The first counter is in
\* the viewport of a page that loads unscrolled, the others further down.
CounterPage ==
    [innerHeight |-> 600,
     stats |-> <<Stat(100, 300, 50), Stat(0, 1000, 50), Stat(250, 1000, 50)>>]

Stats == 1..Len(CounterPage.stats)

\* Scroll offsets at and around the limits of those counters' visibility.
CounterScrollPositions == {0, 400, 401, 1050}

\* lines 249-252: getBoundingClientRect() is relative to the viewport
IsInViewport(el, y) ==
    LET top == CounterPage.stats[el].top - y
        bottom == top + CounterPage.stats[el].height
    IN  top < CounterPage.innerHeight /\ bottom > 0

\* line 257: duration / 16. The running value is kept in units of 1 / Steps,
\* in which one increment is `target` units.
Steps == Duration \div FrameMs

\* `current` is a double, and the sum of n increments is not always the exact
\* n * target / Steps. The difference is far below one unit, so it shows only
\* where the exact sum is a whole number: a sum that was rounded to below it
\* has the floor of the number before, and compares as less than it. These
\* are the n at which that happens, for the targets of CounterPage: 250 / 125
\* and 0 / 125 are added exactly, 100 / 125 = 0.8 is not.
SumBelowExact(target) ==
    IF target = 100
        THEN {10, 50, 55, 60, 65, 70, 75, 80, 85, 90, 95, 100, 105, 110, 115, 120, 125}
        ELSE {}

\* line 262: current < target, after n increments that add up to units
CounterBelowTargetExact(target, n, units) == units < Steps * target

CounterBelowTarget(target, n, units) ==
    \/ units < Steps * target
    \/ units = Steps * target /\ n \in SumBelowExact(target)

CounterFloorUp(target, n, units) == (units + Steps - 1) \div Steps

\* line 263: Math.floor(current)
CounterFloor(target, n, units) ==
    IF units % Steps = 0 /\ n \in SumBelowExact(target)
        THEN units \div Steps - 1
        ELSE units \div Steps

CounterInit ==
    [animated |-> {}, anims |-> {},
     text |-> [el \in Stats |-> 0], starts |-> [el \in Stats |-> 0],
     shown |-> [el \in Stats |-> <<>>]]

\* lines 260-268: one call of a closure's updateCounter; `shown` is the
\* history of what the calls wrote into the element
UpdateCounter(c, a) ==
    LET target == CounterPage.stats[a.el].target
        current == a.current + target
        n == a.n + 1
    IN  IF CounterBelowTarget(target, n, current)
            THEN [c EXCEPT !.anims = (c.anims \ {a})
                                        \cup {[a EXCEPT !.current = current, !.n = n]},
                           !.text[a.el] = CounterFloor(target, n, current),
                           !.shown[a.el] = Append(@, CounterFloor(target, n, current))]
            ELSE [c EXCEPT !.anims = c.anims \ {a},
                           !.text[a.el] = target,
                           !.shown[a.el] = Append(@, target)]

\* lines 254-271: a new closure with current = 0, and its first updateCounter
AnimateCounter(c, el) ==
    LET a == [el |-> el, current |-> 0, n |-> 0, born |-> c.starts[el] + 1]
    IN  UpdateCounter([c EXCEPT !.anims = c.anims \cup {a},
                                !.starts[el] = c.starts[el] + 1], a)

CounterSkipsNever(c, el) == FALSE

\* line 235
CounterSkips(c, el) == el \in c.animated

\* lines 235-240: the handler's callback for one counter
CounterVisit(c, el, y) ==
    IF CounterSkips(c, el)
        THEN c
        ELSE IF IsInViewport(el, y)
                 THEN [AnimateCounter(c, el) EXCEPT !.animated = c.animated \cup {el}]
                 ELSE c

\* line 234: statNumbers.forEach, from the el-th counter on
RECURSIVE CounterVisitFrom(_, _, _)
CounterVisitFrom(c, el, y) ==
    IF el > Len(CounterPage.stats)
        THEN c
        ELSE CounterVisitFrom(CounterVisit(c, el, y), el + 1, y)

\* lines 233-242: one run of the handler
CounterHandler(c, y) == CounterVisitFrom(c, 1, y)

\* One animation frame: the pending updateCounter callbacks run, in the order
\* requestAnimationFrame queued them.
RECURSIVE RunFrame(_, _)
RunFrame(c, pending) ==
    IF pending = {}
        THEN c
        ELSE LET a == CHOOSE x \in pending :
                          \A z \in pending : <<x.born, x.el>> = <<z.born, z.el>>
                              \/ x.born < z.born
                              \/ (x.born = z.born /\ x.el < z.el)
             IN  RunFrame(UpdateCounter(c, a), pending \ {a})

\* The handler is invoked through throttle(..., 100).
CounterInvoke(by) ==
    IF ThrottleImmediate(cntTh, CounterDelay, now)
        THEN /\ cntTh' = ThrottleExecNow(cntTh, now)
             /\ cnt' = CounterHandler(cnt, scrollY')
             /\ cntRuns' = cntRuns + 1
             /\ cntRunBy' = by
             /\ UNCHANGED <<timers, timerSeq>>
        ELSE /\ timerSeq' = timerSeq + 1
             /\ timers' = ThrottleSchedule(timers, cntTh, timerSeq', CounterDelay, now, 0)
             /\ cntTh' = [cntTh EXCEPT !.timeoutId = timerSeq']
             /\ UNCHANGED <<cnt, cntRuns, cntRunBy>>

\* lines 227-230, 244-246: the constructor; init() ends with handleScroll()
CounterConstruct ==
    /\ ~cntBuilt
    /\ cntBuilt' = TRUE
    /\ scrollY' = scrollY
    /\ CounterInvoke("init")
    /\ UNCHANGED <<now, cntLimit, cntScrolls, thVars, dbVars, menuVars>>
    /\ UNCHANGED <<navPage, navActive, navTh, navScrolls, navRan, navCurrent, navRunY, vfVars, formVars, bootVars>>

\* line 244: the page scrolls to y and the scroll event reaches the throttled handler
CounterScroll ==
    \E y \in CounterScrollPositions :
        /\ cntBuilt
        /\ cntScrolls < cntLimit.scrolls
        /\ now <= Epoch + cntLimit.frames * FrameMs
        /\ cntScrolls' = cntScrolls + 1
        /\ scrollY' = y
        /\ CounterInvoke("scroll")
        /\ UNCHANGED <<now, cntLimit, cntBuilt, thVars, dbVars, menuVars>>
        /\ UNCHANGED <<navPage, navActive, navTh, navScrolls, navRan, navCurrent, navRunY, vfVars, formVars, bootVars>>

\* the throttle's timer fires: the handler runs
CounterTimer ==
    \E x \in timers :
        /\ TimerDue(x, now)
        /\ timers' = timers \ {x}
        /\ cntTh' = ThrottleTimerRun(cntTh, now)
        /\ cnt' = CounterHandler(cnt, scrollY)
        /\ cntRuns' = cntRuns + 1
        /\ cntRunBy' = "timer"
        /\ UNCHANGED <<now, timerSeq, cntLimit, cntBuilt, cntScrolls, thVars, dbVars, menuVars, navVars, vfVars, formVars, bootVars>>

\* line 264: the display refreshes, one frame period after the last time, and
\* the callbacks given to requestAnimationFrame run. Frames are followed up
\* to the limit, and where animations are run out, for as long as one runs.
CounterFrame ==
    /\ cntBuilt
    /\ \/ now < Epoch + cntLimit.frames * FrameMs
       \/ cntLimit.runOut /\ cnt.anims # {}
    /\ now' = now + FrameMs
    /\ cnt' = RunFrame(cnt, cnt.anims)
    /\ UNCHANGED <<timers, timerSeq, cntTh, cntBuilt, cntScrolls, cntRuns, cntRunBy>>
    /\ UNCHANGED <<cntLimit, thVars, dbVars, menuVars, navVars, vfVars, formVars, bootVars>>

(***************************************************************************)
(* FormValidation: validateField                                           *)
(***************************************************************************)
\* A field's value is the sequence of its characters.
Whitespace == {" "}
Digits == {"0", "1", "2", "3", "4", "5", "6", "7", "8", "9"}

\* String.prototype.trim (line 355)
RECURSIVE TrimStart(_)
TrimStart(v) ==
    IF v # <<>> /\ Head(v) \in Whitespace THEN TrimStart(Tail(v)) ELSE v

RECURSIVE TrimEnd(_)
TrimEnd(v) ==
    IF v # <<>> /\ v[Len(v)] \in Whitespace
        THEN TrimEnd(SubSeq(v, 1, Len(v) - 1))
        ELSE v

Trim(v) == TrimEnd(TrimStart(v))

\* [^\s@]+ : one character or more, none of them whitespace or '@'
NoSpaceNoAt(v) == v # <<>> /\ \A i \in 1..Len(v) : v[i] \notin Whitespace \cup {"@"}

\* line 371: /^[^\s@]+@[^\s@]+\.[^\s@]+$/ matches v: some '@' and some later
\* '.' cut v into three such runs
EmailRegex(v) ==
    \E i \in 1..Len(v) : \E j \in (i + 1)..Len(v) :
        /\ v[i] = "@"
        /\ v[j] = "."
        /\ NoSpaceNoAt(SubSeq(v, 1, i - 1))
        /\ NoSpaceNoAt(SubSeq(v, i + 1, j - 1))
        /\ NoSpaceNoAt(SubSeq(v, j + 1, Len(v)))

\* line 380: /^[\(\)\s\-\+\d]{10,}$/ matches v
PhoneRegex(v) ==
    /\ Len(v) >= 10
    /\ \A i \in 1..Len(v) : v[i] \in {"(", ")", "-", "+"} \cup Whitespace \cup Digits

\* The messages of lines 365, 373 and 382, by what they are about.
FieldErrors == {"required", "email", "tel"}

ValidateFieldTypeFirst(type, required, raw) ==
    LET value == Trim(raw)
    IN  IF type = "email" /\ value # <<>> /\ ~EmailRegex(value) THEN "email"
        ELSE IF type = "tel" /\ value # <<>> /\ ~PhoneRegex(value) THEN "tel"
        ELSE IF required /\ raw = <<>> THEN "required"
        ELSE ""

\* lines 354-388: the error validateField shows, "" when it returns true
ValidateField(type, required, raw) ==
    LET value == Trim(raw)
    IN  IF required /\ value = <<>> THEN "required"
        ELSE IF type = "email" /\ value # <<>> /\ ~EmailRegex(value) THEN "email"
        ELSE IF type = "tel" /\ value # <<>> /\ ~PhoneRegex(value) THEN "tel"
        ELSE ""

\* The types of the form's input and textarea elements, and values to fill in.
FieldTypes == {"text", "email", "tel", "textarea"}

FieldValues ==
    { <<>>,
      <<" ">>,
      <<" ", " ">>,
      <<"A", "n", "a">>,
      <<" ", "A", "n", "a", " ">>,
      <<"a", "@", "b">>,
      <<"a", "@", "b", ".", "c", "o", "m">>,
      <<" ", "a", "@", "b", ".", "c", "o", "m", " ">>,
      <<"a", " ", "c", "@", "b", ".", "c", "o", "m">>,
      <<"a", "@", "b", "@", "c", ".", "d">>,
      <<"@", "b", ".", "c", "o", "m">>,
      <<"a", "@", "b", ".">>,
      <<"a", "@", ".", "c">>,
      <<"a", ".", "b", "@", "c">>,
      <<"a", "@", "b", ".", "c", ".", "d">>,
      <<"a", "@", "b", ".", "c", " ", "d">>,
      <<"1", "2", "3", "4", "5", "6", "7", "8", "9">>,
      <<"1", "2", "3", "4", "5", "6", "7", "8", "9", "0">>,
      <<" ", "1", "2", "3", "4", "5", "6", "7", "8", "9", " ">>,
      <<"(", "1", "1", ")", " ", "9", "9", "9", "9", "-", "0", "0", "0", "0">>,
      <<"+", "5", "5", " ", "1", "1", " ", "9", "9", "9", "9">>,
      <<"1", "2", "3", "4", "5", "6", "7", "8", "9", "0", "x">>,
      <<"1", "2", "3", "4", ".", "6", "7", "8", "9", "0", "1">>,
      <<"(", ")", " ", "-", "+", " ", "(", ")", "-", "+">> }

FieldInputs == [type : FieldTypes, required : BOOLEAN, value : FieldValues]

PlainInput == [type |-> "text", required |-> FALSE, value |-> <<>>]

\* A blur on the field (line 324): validateField(field)
ValidateBlur ==
    /\ vfError' = ValidateField(vf.type, vf.required, vf.value)
    /\ UNCHANGED <<vf, clockVars, thVars, dbVars, menuVars, navVars, cntVars, formVars, bootVars>>

\* The user types another value into it (line 325): clearError(field)
ValidateInput ==
    \E v \in FieldValues \ {vf.value} :
        /\ vf' = [vf EXCEPT !.value = v]
        /\ vfError' = IF vfError = "unchecked" THEN "unchecked" ELSE ""
        /\ UNCHANGED <<clockVars, thVars, dbVars, menuVars, navVars, cntVars, formVars, bootVars>>

(***************************************************************************)
(* FormValidation: the contact form                                        *)
(***************************************************************************)
MaxSubmits == 2

\* The form's fields (input, textarea), each in a .form-group that has a
\* .form-error element, and the values typed into them.
FormFields ==
    [name  |-> [type |-> "text",  required |-> TRUE],
     email |-> [type |-> "email", required |-> TRUE],
     phone |-> [type |-> "tel",   required |-> FALSE]]

FieldNames == DOMAIN FormFields

FormValues ==
    [name  |-> {<<>>, <<"A", "n", "a">>},
     email |-> {<<>>, <<"a", "@", "b">>, <<"a", "@", "b", ".", "c", "o", "m">>},
     phone |-> {<<>>, <<"1", "2", "3">>}]

RequiredFields == {f \in FieldNames : FormFields[f].required}

\* The submit button's text in the markup, and while a submission runs (429)
OriginalLabel == "Enviar"
PendingLabel == "Enviando..."

\* message of showFormError (line 336)
FixErrors == "Por favor, corrija os erros antes de enviar."

FormInit ==
    [value    |-> [f \in FieldNames |-> <<>>],
     shown    |-> [f \in FieldNames |-> ""],
     last     |-> [f \in FieldNames |-> "never"],
     typed    |-> {},
     disabled |-> FALSE,
     label    |-> OriginalLabel,
     general  |-> "",
     banners  |-> 0,
     pending  |-> <<>>,
     started  |-> 0,
     resolved |-> 0,
     event    |-> "none"]

\* lines 398-403
ClearFieldError(fm, f) == [fm EXCEPT !.shown[f] = ""]

ShowFieldErrorNot(fm, f, message) == fm

\* lines 390-396
ShowFieldError(fm, f, message) == [fm EXCEPT !.shown[f] = message]

\* lines 354-388 on the form's field f; last and typed are history: the
\* result of the field's latest validation, the fields typed into since theirs
FormValidateField(fm, f) ==
    LET message == ValidateField(FormFields[f].type, FormFields[f].required, fm.value[f])
        cleared == [ClearFieldError(fm, f) EXCEPT
                        !.last[f] = IF message = "" THEN "valid" ELSE "invalid",
                        !.typed = @ \ {f}]
    IN  IF message = "" THEN cleared ELSE ShowFieldError(cleared, f, message)

\* lines 405-409
ClearError(fm, f) == ClearFieldError(fm, f)

RECURSIVE ValidateFields(_, _)
ValidateFields(fm, fields) ==
    IF fields = {} THEN fm
    ELSE LET f == CHOOSE g \in fields : TRUE
         IN  ValidateFields(FormValidateField(fm, f), fields \ {f})

\* lines 341-352: every [required] field is validated, none is skipped
ValidateForm(fm) ==
    LET after == ValidateFields(fm, RequiredFields)
    IN  [form |-> after, isValid |-> \A f \in RequiredFields : after.last[f] = "valid"]

\* lines 411-421
ShowFormError(fm, message) == [fm EXCEPT !.general = message]

\* lines 446-455, without the timer that removes the banner
ShowSuccessMessage(fm) == [fm EXCEPT !.banners = @ + 1]

FormResetKeepsValues(fm) == fm

\* form.reset() (line 437)
FormReset(fm) == [fm EXCEPT !.value = [f \in FieldNames |-> <<>>]]

\* lines 423-431: submitForm up to its await
SubmitFormStart(fm) ==
    [fm EXCEPT !.pending = Append(@, [originalText |-> fm.label, formData |-> fm.value]),
               !.started = @ + 1,
               !.disabled = TRUE,
               !.label = PendingLabel]

\* lines 434-443: submitForm after its await, for the oldest submission waiting
SubmitFormFinish(fm) ==
    LET done == FormReset(ShowSuccessMessage(fm))
    IN  [done EXCEPT !.pending = Tail(@),
                     !.resolved = @ + 1,
                     !.disabled = FALSE,
                     !.label = Head(fm.pending).originalText]

HandleSubmitAnyway(fm) == SubmitFormStart(ValidateForm(fm).form)

\* lines 329-339
HandleSubmit(fm) ==
    LET checked == ValidateForm(fm)
    IN  IF checked.isValid
            THEN SubmitFormStart(checked.form)
            ELSE ShowFormError(checked.form, FixErrors)

\* input event on a field (line 325)
FormInput ==
    \E f \in FieldNames : \E v \in FormValues[f] \ {form.value[f]} :
        /\ form' = [ClearError([form EXCEPT !.value[f] = v], f) EXCEPT
                        !.typed = @ \cup {f}, !.event = "input"]
        /\ UNCHANGED <<clockVars, thVars, dbVars, menuVars, navVars, cntVars, vfVars, bootVars>>

\* blur event on a field (line 324)
FormBlur ==
    \E f \in FieldNames :
        /\ form' = [FormValidateField(form, f) EXCEPT !.event = "blur"]
        /\ UNCHANGED <<clockVars, thVars, dbVars, menuVars, navVars, cntVars, vfVars, bootVars>>

\* submit event on the form (line 319)
FormSubmit ==
    /\ form.started < MaxSubmits
    /\ form' = [HandleSubmit(form) EXCEPT !.event = "submit"]
    /\ UNCHANGED <<clockVars, thVars, dbVars, menuVars, navVars, cntVars, vfVars, bootVars>>

\* the 1500 ms timer of the oldest waiting submission fires (line 432)
FormResolve ==
    /\ form.pending # <<>>
    /\ form' = [SubmitFormFinish(form) EXCEPT !.event = "resolve"]
    /\ UNCHANGED <<clockVars, thVars, dbVars, menuVars, navVars, cntVars, vfVars, bootVars>>

\* the 5000 ms timer of a success banner fires (lines 452-454)
FormBannerRemove ==
    /\ form.banners > 0
    /\ form' = [form EXCEPT !.banners = @ - 1, !.event = "remove"]
    /\ UNCHANGED <<clockVars, thVars, dbVars, menuVars, navVars, cntVars, vfVars, bootVars>>

(***************************************************************************)
(* Initialization of the components on DOMContentLoaded                    *)
(***************************************************************************)
\* The constructors in the order of lines 562-571
Units ==
    <<"Preloader", "MobileMenu", "HeaderScrollEffect", "ActiveNavigation",
      "SmoothScroll", "CounterAnimation", "ScrollToTop", "FormValidation",
      "ScrollAnimations", "Performance">>

UnitSet == {Units[i] : i \in DOMAIN Units}

\* The page and the browser the script runs in: whether IntersectionObserver
\* is defined, whether the header, the menu elements and the contact form
\* exist, and where the page is scrolled to when the script runs.
BootEnvs ==
    [io : BOOLEAN, header : BOOLEAN, menu : BOOLEAN, contactForm : BOOLEAN,
     scrollY : {0, 101, 501}]

PlainEnv ==
    [io |-> TRUE, header |-> TRUE, menu |-> TRUE, contactForm |-> TRUE, scrollY |-> 0]

BootInit(env) ==
    [env       |-> env,
     ran       |-> FALSE,
     inited    |-> {},
     failed    |-> "none",
     loaded    |-> FALSE,
     warned    |-> FALSE,
     listening |-> {},
     scrolled  |-> FALSE,
     preloader |-> "none"]

\* A constructor throws: ScrollAnimations.init calls new IntersectionObserver
\* with no test that it is defined (line 470)
UnitThrows(env, u) == u = "ScrollAnimations" /\ ~env.io

\* What a constructor leaves behind when it returns
UnitInit(b, u) ==
    LET done == [b EXCEPT !.inited = @ \cup {u}]
    IN  CASE u = "Preloader" -> [done EXCEPT !.preloader = "shown"]
          [] u = "MobileMenu" ->
                [done EXCEPT !.listening = IF b.env.menu THEN @ \cup {"menu"} ELSE @]
          [] u = "HeaderScrollEffect" ->
                [done EXCEPT !.scrolled = b.env.header /\ b.env.scrollY > 100]
          [] u = "FormValidation" ->
                [done EXCEPT !.listening = IF b.env.contactForm THEN @ \cup {"form"} ELSE @]
          [] OTHER -> done

\* lines 560-574: the constructors one after the other, then the 'loaded'
\* class; an exception ends the handler where it is thrown
RECURSIVE InitializeFrom(_, _)
InitializeFrom(b, i) ==
    IF i > Len(Units) THEN [b EXCEPT !.loaded = TRUE]
    ELSE IF UnitThrows(b.env, Units[i]) THEN [b EXCEPT !.failed = Units[i]]
    ELSE InitializeFrom(UnitInit(b, Units[i]), i + 1)

\* DOMContentLoaded (line 560)
BootReady ==
    /\ ~boot.ran
    /\ boot' = [InitializeFrom(boot, 1) EXCEPT !.ran = TRUE]
    /\ UNCHANGED <<clockVars, thVars, dbVars, menuVars, navVars, cntVars, vfVars, formVars>>

\* the exception that ended the handler reaches the window's error listener
\* (lines 577-579)
BootErrorEvent ==
    /\ boot.failed # "none"
    /\ ~boot.warned
    /\ boot' = [boot EXCEPT !.warned = TRUE]
    /\ UNCHANGED <<clockVars, thVars, dbVars, menuVars, navVars, cntVars, vfVars, formVars>>

\* the window's load event, with the preloader's listener (lines 496-501)
BootLoad ==
    /\ boot.preloader = "shown"
    /\ boot' = [boot EXCEPT !.preloader = "waiting"]
    /\ UNCHANGED <<clockVars, thVars, dbVars, menuVars, navVars, cntVars, vfVars, formVars>>

\* its 500 ms timer (lines 497-500)
PreloaderFadeOut ==
    /\ boot.preloader = "waiting"
    /\ boot' = [boot EXCEPT !.preloader = "fade-out"]
    /\ UNCHANGED <<clockVars, thVars, dbVars, menuVars, navVars, cntVars, vfVars, formVars>>

\* its 300 ms timer (line 499)
PreloaderRemove ==
    /\ boot.preloader = "fade-out"
    /\ boot' = [boot EXCEPT !.preloader = "removed"]
    /\ UNCHANGED <<clockVars, thVars, dbVars, menuVars, navVars, cntVars, vfVars, formVars>>

(***************************************************************************)
(* Specifications                                                          *)
(***************************************************************************)
\* What the markup and styles of a page may have made of the navbar's class,
\* the toggle's aria-expanded and the body's overflow, and a plain page.
MenuPages ==
    [isOpen : {FALSE}, navbarActive : BOOLEAN,
     ariaExpanded : AriaValues, overflow : OverflowValues]

PlainMenu ==
    [isOpen |-> FALSE, navbarActive |-> FALSE, ariaExpanded |-> "false", overflow |-> ""]

\* The state after construction, on a page whose menu is one of menus, with
\* or without the menu's two elements, whose sections and links are one of
\* pages and whose links marked 'active' are one of marked, loaded at one of
\* the scroll offsets, and followed as far as limit, and with one of inputs
\* as the field that is validated, in one of the environments envs. A specification gives the unit it
\* moves every page it can meet, and the other units a plain page.
Init(menus, wired, pages, marked, offsets, limit, inputs, envs) ==
    /\ now = Epoch
    /\ timers = {}
    /\ timerSeq = 0
    /\ th = ThrottleInit
    /\ thCalls = <<>>
    /\ thExecs = <<>>
    /\ thOnTime = TRUE
    /\ db = DebounceInit
    /\ dbCalls = <<>>
    /\ dbExecs = <<>>
    /\ menu \in menus
    /\ menuWired \in wired
    /\ menuRan = FALSE
    /\ menuEvent = NoEvent
    /\ menuPrev = FALSE
    /\ navPage \in pages
    /\ scrollY \in offsets
    /\ navActive \in marked
    /\ navTh = ThrottleInit
    /\ navScrolls = 0
    /\ navRan = FALSE
    /\ navCurrent = ""
    /\ navRunY = 0
    /\ cnt = CounterInit
    /\ cntLimit = limit
    /\ cntTh = ThrottleInit
    /\ cntBuilt = FALSE
    /\ cntScrolls = 0
    /\ cntRuns = 0
    /\ cntRunBy = "none"
    /\ vf \in inputs
    /\ vfError = "unchecked"
    /\ form = FormInit
    /\ \E env \in envs : boot = BootInit(env)

CounterLimit == [frames |-> CntMaxFrames, scrolls |-> MaxCalls, runOut |-> FALSE]

\* Animations that start in the first frames, followed to their end.
AnimationLimit == [frames |-> AnimMaxFrames, scrolls |-> AnimMaxScrolls, runOut |-> TRUE]

NextThrottle == ThrottleInvoke \/ ThrottleTimer \/ ThrottleTick
SpecThrottle == Init({PlainMenu}, {TRUE}, {PlainNavPage}, {{}}, {0}, CounterLimit, {PlainInput}, {PlainEnv}) /\ [][NextThrottle]_vars

NextDebounce == DebounceInvoke \/ DebounceLater \/ DebounceTick
SpecDebounce == Init({PlainMenu}, {TRUE}, {PlainNavPage}, {{}}, {0}, CounterLimit, {PlainInput}, {PlainEnv}) /\ [][NextDebounce]_vars

NextMenu == MenuClick \/ MenuKeydown
SpecMenu == Init(MenuPages, BOOLEAN, {PlainNavPage}, {{}}, {0}, CounterLimit, {PlainInput}, {PlainEnv}) /\ [][NextMenu]_vars

NextNav == NavScroll \/ NavTimer \/ NavTick
NextCounter == CounterConstruct \/ CounterScroll \/ CounterTimer \/ CounterFrame
SpecCounter ==
    Init({PlainMenu}, {TRUE}, {PlainNavPage}, {{}}, CounterScrollPositions, CounterLimit, {PlainInput}, {PlainEnv})
    /\ [][NextCounter]_vars

\* The browser delivers animation frames for as long as callbacks are queued.
SpecAnimation ==
    /\ Init({PlainMenu}, {TRUE}, {PlainNavPage}, {{}}, CounterScrollPositions, AnimationLimit,
            {PlainInput}, {PlainEnv})
    /\ [][NextCounter]_vars
    /\ WF_vars(CounterFrame)

NextValidate == ValidateBlur \/ ValidateInput
SpecValidate ==
    /\ Init({PlainMenu}, {TRUE}, {PlainNavPage}, {{}}, {0}, CounterLimit, FieldInputs, {PlainEnv})
    /\ [][NextValidate]_vars

NextForm == FormInput \/ FormBlur \/ FormSubmit \/ FormResolve \/ FormBannerRemove
SpecForm ==
    /\ Init({PlainMenu}, {TRUE}, {PlainNavPage}, {{}}, {0}, CounterLimit, {PlainInput}, {PlainEnv})
    /\ [][NextForm]_vars

SpecFormFair ==
    /\ Init({PlainMenu}, {TRUE}, {PlainNavPage}, {{}}, {0}, CounterLimit, {PlainInput}, {PlainEnv})
    /\ [][NextForm]_vars
    /\ WF_vars(FormResolve)

NextBoot == BootReady \/ BootErrorEvent \/ BootLoad \/ PreloaderFadeOut \/ PreloaderRemove
SpecBoot ==
    /\ Init({PlainMenu}, {TRUE}, {PlainNavPage}, {{}}, {0}, CounterLimit, {PlainInput}, BootEnvs)
    /\ [][NextBoot]_vars

SpecNav == Init({PlainMenu}, {TRUE}, NavPages, NavMarkupActive, {0}, CounterLimit, {PlainInput}, {PlainEnv}) /\ [][NextNav]_vars

(***************************************************************************)
(* Claims about throttle (SpecThrottle)                                    *)
(***************************************************************************)
\* The invocations were made 0, 5 and 12 ms after the start, every timer has
\* fired exactly when due, and nothing is pending any more.
C1Scenario ==
    /\ thCalls = <<Epoch, Epoch + 5, Epoch + 12>>
    /\ thOnTime
    /\ timers = {}

\* C1 as stated: invocations at t=0, t=5 and t=12 with delay 10 and punctual
\* timers cause exactly two executions, one at t=0 and one trailing execution
\* at or after t=10 that carries the arguments of the t=12 invocation.
C1_TwoExecutions ==
    C1Scenario =>
        /\ Len(thExecs) = 2
        /\ thExecs[1].t = Epoch
        /\ thExecs[2].trailing
        /\ thExecs[2].t >= Epoch + 10
        /\ thExecs[2].arg = 3

\* C1 amended: invocations at t=0, t=5 and t=12 with delay 10 and punctual
\* timers cause exactly three executions: one at t=0 with the first
\* invocation's arguments, a trailing one at t=10 with the arguments of the
\* t=5 invocation, and a trailing one at t=20 with the arguments of the t=12
\* invocation.
C1_ThreeExecutions ==
    C1Scenario =>
        thExecs = << [t |-> Epoch, arg |-> 1, trailing |-> FALSE],
                     [t |-> Epoch + 10, arg |-> 2, trailing |-> TRUE],
                     [t |-> Epoch + 20, arg |-> 3, trailing |-> TRUE] >>

C1_Witness == C1Scenario /\ Len(thExecs) = 3 /\ now = Epoch + 20

\* C2: any two real executions of the underlying function are at least
\* delayMs apart, whenever the timers fire at or after their due time.
C2_MinGap ==
    \A i \in 1..(Len(thExecs) - 1) :
        thExecs[i + 1].t - thExecs[i].t >= ThrottleDelay

\* C3: once no timer is pending, the last real execution carries the
\* arguments of the latest invocation.
C3_LatestArgs ==
    (timers = {} /\ Len(thCalls) > 0) =>
        /\ Len(thExecs) > 0
        /\ thExecs[Len(thExecs)].arg = Len(thCalls)

(***************************************************************************)
(* Claims about debounce (SpecDebounce)                                    *)
(***************************************************************************)
\* Each invocation so far followed the previous one by less than waitMs.
DebounceBurst ==
    /\ Len(dbCalls) >= 1
    /\ \A i \in 1..(Len(dbCalls) - 1) : dbCalls[i + 1] - dbCalls[i] < DebounceWait

\* C4: N >= 1 invocations, each less than waitMs after the previous one, give
\* exactly one execution, not before waitMs after the last invocation and with
\* the last invocation's arguments; each invocation cancels the execution the
\* previous one scheduled, so one timer at most is pending and nothing has
\* executed while it is.
C4_DebounceOnce ==
    DebounceBurst =>
        /\ Cardinality(timers) <= 1
        /\ timers # {} =>
              /\ dbExecs = <<>>
              /\ \A x \in timers : x.arg = Len(dbCalls)
        /\ timers = {} =>
              /\ Len(dbExecs) = 1
              /\ dbExecs[1].arg = Len(dbCalls)
              /\ dbExecs[1].t >= dbCalls[Len(dbCalls)] + DebounceWait

C4_Witness ==
    /\ DebounceBurst
    /\ Len(dbCalls) = MaxCalls
    /\ timers = {}
    /\ Len(dbExecs) = 1

(***************************************************************************)
(* Claims about the mobile menu (SpecMenu)                                 *)
(***************************************************************************)
\* C5: once open() or close() has run, isOpen, the navbar's 'active' class,
\* the toggle's aria-expanded = 'true' and body overflow = 'hidden' agree.
C5_MenuStateAgrees ==
    menuRan =>
        /\ menu.isOpen <=> menu.navbarActive
        /\ menu.isOpen <=> (menu.ariaExpanded = "true")
        /\ menu.isOpen <=> (menu.overflow = "hidden")

\* The menu was opened and closed again.
C5_Witness ==
    /\ menuRan
    /\ menuPrev
    /\ ~menu.isOpen
    /\ menu.overflow = ""

\* C6: a click on the toggle control flips the state exactly once; a click on
\* a nav link, a click outside both the navbar and the toggle control, and an
\* Escape key press leave the menu closed; a click inside the navbar that is
\* not on a nav link, and any other key, leave the state unchanged.
C6_MenuTransitions ==
    menuWired =>
        /\ (menuEvent.kind = "click" /\ menuEvent.onToggle) =>
              menu.isOpen = ~menuPrev
        /\ (menuEvent.kind = "click" /\ menuEvent.onLink) => ~menu.isOpen
        /\ (menuEvent.kind = "click" /\ ~menuEvent.inNavbar /\ ~menuEvent.onToggle) =>
              ~menu.isOpen
        /\ (menuEvent.kind = "key" /\ menuEvent.key = "Escape") => ~menu.isOpen
        /\ (menuEvent.kind = "click" /\ menuEvent.inNavbar
              /\ ~menuEvent.onLink /\ ~menuEvent.onToggle) =>
              menu.isOpen = menuPrev
        /\ (menuEvent.kind = "key" /\ menuEvent.key # "Escape") =>
              menu.isOpen = menuPrev

\* The toggle control lies outside the navbar and its click opened the menu.
C6_Witness ==
    /\ menuWired
    /\ menuEvent.kind = "click"
    /\ menuEvent.onToggle
    /\ ~menuEvent.inNavbar
    /\ ~menuPrev
    /\ menu.isOpen

(***************************************************************************)
(* Claims about the active navigation (SpecNav)                            *)
(***************************************************************************)
\* The range [offsetTop - 120, offsetTop - 120 + offsetHeight) of a section.
InSectionRange(sec, y) ==
    /\ sec.offsetTop - 120 <= y
    /\ y < sec.offsetTop - 120 + sec.offsetHeight

\* The sections, by position, whose range held scrollY at the last run.
MatchingSections ==
    {i \in 1..Len(navPage.sections) : InSectionRange(navPage.sections[i], navRunY)}

LastMatchingSection ==
    CHOOSE i \in MatchingSections : \A j \in MatchingSections : j <= i

LinksTo(id) == {k \in 1..Len(navPage.links) : navPage.links[k] = "#" \o id}

DistinctLinkTargets ==
    \A k, l \in 1..Len(navPage.links) :
        navPage.links[k] = navPage.links[l] => k = l

\* C7: after a run of the handler, the current section is the last section in
\* document order whose range contains scrollY, the active links are exactly
\* the links to that section, and with distinct link targets at most one link
\* is active.
C7_ActiveIsLastMatch ==
    (navRan /\ MatchingSections # {}) =>
        /\ navCurrent = navPage.sections[LastMatchingSection].id
        /\ navActive = LinksTo(navPage.sections[LastMatchingSection].id)
        /\ DistinctLinkTargets => Cardinality(navActive) <= 1

\* Two sections' ranges held scrollY, and the two links to the later one are
\* the active ones.
C7_Witness ==
    /\ navRan
    /\ Cardinality(MatchingSections) = 2
    /\ navActive = {2, 3}

\* C8: after a run of the handler in which no section's range contains
\* scrollY, no nav link carries the 'active' class.
C8_NoMatchNoActive ==
    (navRan /\ MatchingSections = {}) => navActive = {}

\* The page of the example: sections at 0, 800, 1600, each 800 high, and one
\* link for each.
C9Page ==
    /\ Len(navPage.sections) = 3
    /\ \A i \in 1..3 :
          /\ navPage.sections[i].offsetTop = 800 * (i - 1)
          /\ navPage.sections[i].offsetHeight = 800
    /\ \A i \in 1..3 : Cardinality(LinksTo(navPage.sections[i].id)) = 1

\* C9 as stated: on that page, a run with scrollY = 850 makes the link of the
\* second section the only active link, and a run with scrollY = -50 leaves
\* no link active.
C9_Example ==
    (navRan /\ C9Page) =>
        /\ navRunY = 850 => navActive = LinksTo(navPage.sections[2].id)
        /\ navRunY = -50 => navActive = {}

\* C9 amended: on that page, a run with scrollY = 850 makes the link of the
\* second section the only active link, and a run with scrollY = -50 makes the
\* link of the first section the only active link (-50 lies in [-120, 680)).
C9_ExampleFirstSection ==
    (navRan /\ C9Page) =>
        /\ navRunY = 850 => navActive = LinksTo(navPage.sections[2].id)
        /\ navRunY = -50 => navActive = LinksTo(navPage.sections[1].id)

\* Both runs of the example, one after the other.
C9_Witness ==
    /\ navRan
    /\ C9Page
    /\ navRunY = -50
    /\ scrollY = -50
    /\ navScrolls = 2
    /\ Cardinality(navActive) = 1

(***************************************************************************)
(* Claims about the counter animation's trigger (SpecCounter)              *)
(***************************************************************************)
RunningOn(el) == {a \in cnt.anims : a.el = el}

\* C10: the counter animation is started at most once for each element: an
\* element is in the 'animated' set exactly when animateCounter has been
\* called for it, once, and from then on its displayed value is the one its
\* single animation wrote last: the floor of the running value while the
\* animation runs, the target once it has stopped.
C10_AnimatedOnce ==
    \A el \in Stats :
        /\ cnt.starts[el] <= 1
        /\ el \in cnt.animated <=> cnt.starts[el] = 1
        /\ Cardinality(RunningOn(el)) <= cnt.starts[el]
        /\ \A a \in RunningOn(el) : Len(cnt.shown[el]) = a.n
        /\ cnt.shown[el] # <<>> => cnt.text[el] = cnt.shown[el][Len(cnt.shown[el])]
        /\ (el \in cnt.animated /\ RunningOn(el) = {}) =>
              cnt.text[el] = CounterPage.stats[el].target

\* The handler has run again, from a timer, on a page that shows the first
\* counter while its animation runs; a counter further down has been
\* animated too.
C10_Witness ==
    /\ cntRuns >= 3
    /\ cntRunBy = "timer"
    /\ IsInViewport(1, scrollY)
    /\ cnt.animated = {1, 2, 3}
    /\ \E a \in RunningOn(1) : a.current > 2 * CounterPage.stats[1].target

(***************************************************************************)
(* Claims about the counter animation's values (SpecAnimation)             *)
(***************************************************************************)
\* The counter whose target is 100, and what its animation has displayed.
Counter100 == CHOOSE el \in Stats : CounterPage.stats[el].target = 100

Shown100 == cnt.shown[Counter100]

Stopped100 == Counter100 \in cnt.animated /\ RunningOn(Counter100) = {}

\* C11 as stated: the counter with target 100 displays a strictly increasing
\* sequence of values from frame to frame, and its animation stops after
\* finitely many frames with the displayed value exactly 100.
C11_StrictlyIncreasing ==
    /\ \A i \in 1..(Len(Shown100) - 1) : Shown100[i] < Shown100[i + 1]
    /\ Stopped100 => cnt.text[Counter100] = 100

\* C11 amended: the counter with target 100 displays a sequence of values that
\* never decreases from frame to frame (a value can be displayed twice: the
\* increment is 0.8), and, animation frames being delivered, its animation
\* stops, at its 126th call, with the displayed value exactly 100.
C11_NeverDecreasingTo100 ==
    /\ [](/\ \A i \in 1..(Len(Shown100) - 1) : Shown100[i] <= Shown100[i + 1]
          /\ Stopped100 => (cnt.text[Counter100] = 100 /\ Len(Shown100) = 126))
    /\ (Counter100 \in cnt.animated) ~> Stopped100

\* The animation has run to its end, having displayed 4 twice and, the sum of
\* ten increments being just below 8, 7 twice.
C11_Witness ==
    /\ Stopped100
    /\ Len(Shown100) = 126
    /\ Shown100[5] = 4 /\ Shown100[6] = 4
    /\ Shown100[9] = 7 /\ Shown100[10] = 7
    /\ Shown100[125] = 99
    /\ cnt.text[Counter100] = 100

(***************************************************************************)
(* C17                                                                     *)
(***************************************************************************)
AtSigns(v) == {i \in 1..Len(v) : v[i] = "@"}

\* local@domain.tld: no whitespace, one '@' with something before it, and
\* after it a '.' with something on both of its sides
EmailShape(v) ==
    /\ \A i \in 1..Len(v) : v[i] \notin Whitespace
    /\ Cardinality(AtSigns(v)) = 1
    /\ \A i \in AtSigns(v) :
        /\ i > 1
        /\ \E k \in (i + 2)..(Len(v) - 1) : v[k] = "."

PhoneShape(v) ==
    /\ Len(v) >= 10
    /\ {v[i] : i \in 1..Len(v)} \subseteq Digits \cup {" ", "(", ")", "-", "+"}

C17_Expected(f) ==
    LET value == Trim(f.value)
    IN  CASE f.required /\ value = <<>> -> "required"
          [] value # <<>> /\ f.type = "email" /\ ~EmailShape(value) -> "email"
          [] value # <<>> /\ f.type = "tel" /\ ~PhoneShape(value) -> "tel"
          [] OTHER -> ""

\* C17: validating a field reports the first failing check of required,
\* email, phone: a required field whose trimmed value is empty gets the
\* required error whatever its type, a non-empty email field that is not
\* local@domain.tld the email error, a non-empty tel field that is not ten or
\* more digits, spaces, parentheses, hyphens and pluses the phone error, and
\* every other field, an empty non-required one of any type included, none.
C17_ValidateFieldRules ==
    [][vf' = vf => vfError' = C17_Expected(vf)]_vars

C17_Witness ==
    /\ vf = [type |-> "email", required |-> TRUE, value |-> <<"a", "@", "b">>]
    /\ vfError = "email"

(***************************************************************************)
(* C12                                                                     *)
(***************************************************************************)
ErrorDisplayed(f) == form.shown[f] # ""

\* C12 as stated: for every field validated at least once, the error display
\* is on exactly when the field's latest validateField result was invalid.
C12_DisplayIffInvalid ==
    \A f \in FieldNames :
        form.last[f] # "never" => (ErrorDisplayed(f) <=> form.last[f] = "invalid")

\* C12: for every field validated at least once, the error display is on
\* exactly when the field's latest validateField result was invalid and no
\* input event has come to the field since that validation.
C12_DisplayIffInvalidUntilInput ==
    \A f \in FieldNames :
        form.last[f] # "never" =>
            (ErrorDisplayed(f) <=> (form.last[f] = "invalid" /\ f \notin form.typed))

C12_Witness ==
    /\ form.last["email"] = "invalid"
    /\ "email" \in form.typed
    /\ ~ErrorDisplayed("email")
    /\ form.last["phone"] = "invalid"
    /\ ErrorDisplayed("phone")

(***************************************************************************)
(* C13                                                                     *)
(***************************************************************************)
FieldPasses(f, value) ==
    LET v == Trim(value)
    IN  /\ FormFields[f].required => v # <<>>
        /\ (FormFields[f].type = "email" /\ v # <<>>) => EmailShape(v)
        /\ (FormFields[f].type = "tel" /\ v # <<>>) => PhoneShape(v)

RequiredPass == \A f \in RequiredFields : FieldPasses(f, form.value[f])

SubmitEvent == form'.event = "submit"

\* C13: a submit event with a failing required field does not enter
\* submitForm, leaves the submit control as it was, shows the general error and
\* keeps every field's value; submitForm is entered only by a submit event
\* on a form whose required fields all pass.
C13_InvalidSubmitRejected ==
    [][/\ (SubmitEvent /\ ~RequiredPass) =>
            /\ form'.started = form.started
            /\ form'.pending = form.pending
            /\ form'.disabled = form.disabled
            /\ form'.label = form.label
            /\ form'.general = FixErrors
            /\ form'.value = form.value
       /\ form'.started # form.started => (SubmitEvent /\ RequiredPass)]_vars

C13_Witness ==
    /\ form.event = "submit"
    /\ form.started = 0
    /\ form.general = FixErrors
    /\ form.value["name"] = <<"A", "n", "a">>
    /\ form.value["email"] = <<"a", "@", "b">>
    /\ form.shown["email"] = "email"

(***************************************************************************)
(* C14                                                                     *)
(***************************************************************************)
\* C14: once every submission that was started has resolved, the submit
\* control is enabled and has the label it had before the first submission.
C14_ControlRestored ==
    (form.started > 0 /\ form.pending = <<>>) =>
        (~form.disabled /\ form.label = OriginalLabel)

(***************************************************************************)
(* C15                                                                     *)
(***************************************************************************)
\* C15: a submission starts only by a submit event on a form whose required
\* fields all pass; a submission that resolves shows the success banner and
\* clears every field; and, the timers firing, the submissions that were
\* started all resolve.
C15_SubmissionResolves ==
    /\ [][/\ form'.started # form.started =>
                (SubmitEvent /\ RequiredPass /\ form'.started = form.started + 1)
          /\ form'.resolved # form.resolved =>
                /\ form'.resolved = form.resolved + 1
                /\ form'.banners = form.banners + 1
                /\ \A f \in FieldNames : form'.value[f] = <<>>]_vars
    /\ (form.resolved < form.started) ~> (form.resolved = form.started)

C15_Witness ==
    /\ form.event = "resolve"
    /\ form.resolved = 1
    /\ form.started = 1
    /\ form.banners = 1
    /\ form.pending = <<>>

(***************************************************************************)
(* C16                                                                     *)
(***************************************************************************)
\* C16: when the initialization of one unit throws during the
\* DOMContentLoaded handler, every other unit is initialized all the same
\* and the page is marked 'loaded'.
C16_OthersInitialized ==
    boot.failed # "none" =>
        /\ UnitSet \ {boot.failed} \subseteq boot.inited
        /\ boot.loaded

(***************************************************************************)
(* C18                                                                     *)
(***************************************************************************)
\* C18: while a submission is pending the submit control is disabled and
\* shows the pending label, overlapping submissions included.
C18_DisabledWhilePending ==
    form.pending # <<>> => (form.disabled /\ form.label = PendingLabel)

(***************************************************************************)
(* C19                                                                     *)
(***************************************************************************)
\* C19: the success banner and the general error of the form are never
\* displayed at the same time.
C19_BannerExcludesGeneralError ==
    ~(form.banners > 0 /\ form.general # "")

(***************************************************************************)
(* C20                                                                     *)
(***************************************************************************)
\* C20: the field values of every submission that was attempted are all
\* valid, those of the optional fields too.
C20_AllFieldsValidOnSubmit ==
    \A i \in DOMAIN form.pending :
        \A f \in FieldNames : FieldPasses(f, form.pending[i].formData[f])

====
